---- MODULE Spec2Model ----
(***************************************************************************)
(* Model of the tvrank IMDB engine: the title shard (imdb/basics.rs), the  *)
(* ratings table (imdb/ratings.rs) and the load/query orchestrator         *)
(* (imdb/service.rs).                                                      *)
(*                                                                         *)
(* Bytes are one-character strings, byte slices are sequences of them.     *)
(* Option<T> is a sequence of length 0 (None) or 1 (Some(x)).              *)
(* A hash map is a function whose DOMAIN is the key set.                   *)
(***************************************************************************)
EXTENDS Integers, Sequences, FiniteSets, TLC

VARIABLES
  db,        \* SpecShard: one Basics shard
  calls,     \* SpecShard: lines add_basics_from_line was called with, in order
  rets,      \* SpecShard: what each of those calls returned
  found      \* SpecShard: the result of the last lookup

shardVars == <<db, calls, rets, found>>

VARIABLES
  ncpus,      \* num_cpus::get()
  storage,    \* Storage: basics_db_buf and ratings_db_buf
  opc,        \* where Service::new is
  spawn_i,    \* parse_basics: the i of the spawn loop
  handles,    \* parse_basics: the handles pushed, as worker numbers
  join_j,     \* parse_basics: handles joined so far
  basics_dbs, \* parse_basics: the shards pushed, later Service.basics_dbs
  ratings_db, \* Ratings.ratings, later Service.ratings_db
  rpos,       \* Ratings::new_from_buf: rating lines consumed
  source,     \* basics_source: lines the shared iterator has consumed
  mutex,      \* the worker holding the lock of basics_source, if any
  wpc,        \* per worker: where its closure is
  lines,      \* per worker: its lines vector, as line numbers of the buffer
  lidx,       \* per worker: position of the for loop in lines
  shard,      \* per worker: its basics_db
  inserted,   \* per worker: line numbers passed to add_basics_from_line
  errors,     \* what error! has logged
  failure,    \* the Err that Service::new returned, if it returned one
  qpc,        \* where Service::query is
  qf,         \* query: the function asked
  qi,         \* query: the i of the spawn loop
  qhandles,   \* query: the handles pushed, as shard numbers
  qj,         \* query: handles joined so far
  qthr,       \* query: per shard, the state and result of its thread
  qacc,       \* query: res
  qerrs,      \* query: what error! has logged during the call
  qret        \* the last answer returned to the caller

loadVars ==
  <<ncpus, storage, opc, spawn_i, handles, join_j, basics_dbs, ratings_db,
    rpos, source, mutex, wpc, lines, lidx, shard, inserted, errors, failure>>

queryVars == <<qpc, qf, qi, qhandles, qj, qthr, qacc, qerrs, qret>>

serviceVars == <<loadVars, queryVars>>

vars == <<shardVars, serviceVars>>

--------------------------------------------------------------------------
(* Bounds *)

\* number of add_basics_from_line calls explored on one shard
MaxInserts == 3

\* largest num_cpus::get() explored
MaxCpus == 4

\* most lines of a title buffer between the header and the final newline
MaxLines == 3

\* lines per claimed batch: take(200_000) in the source, scaled to the
\* buffers explored so that one load spans several batches
ChunkSize == 2

--------------------------------------------------------------------------
(* Bytes and slices *)

TAB == "\t"
NL == "\n"
COMMA == ","
ZERO == <<"0">>
ONE == <<"1">>
NOT_AVAIL == <<"\\", "N">>

Digits == <<"0", "1", "2", "3", "4", "5", "6", "7", "8", "9">>

IsDigit(c) == \E i \in 1..10 : Digits[i] = c

DigitVal(c) == (CHOOSE i \in 1..10 : Digits[i] = c) - 1

Upper == <<"A", "B", "E", "O", "S", "T">>
Lower == <<"a", "b", "e", "o", "s", "t">>

\* char::to_lowercase on the letters that occur in the inputs
LowerChar(c) ==
  IF \E i \in 1..Len(Upper) : Upper[i] = c
  THEN Lower[CHOOSE i \in 1..Len(Upper) : Upper[i] = c]
  ELSE c

\* str::to_lowercase
ToLowercase(s) == [i \in 1..Len(s) |-> LowerChar(s[i])]

\* the elements of a sequence
Range(s) == {s[i] : i \in 1..Len(s)}

\* position of the first sep in s, or Len(s)+1
RECURSIVE FindSep(_, _, _)
FindSep(s, sep, i) ==
  IF i > Len(s) THEN i
  ELSE IF s[i] = sep THEN i
  ELSE FindSep(s, sep, i + 1)

\* slice::split(|&b| b == sep): always yields at least one (maybe empty) piece
RECURSIVE Split(_, _)
Split(s, sep) ==
  LET k == FindSep(s, sep, 1) IN
  IF k > Len(s) THEN <<s>>
  ELSE <<SubSeq(s, 1, k - 1)>> \o Split(SubSeq(s, k + 1, Len(s)), sep)

\* the inverse used to write the input buffers down
RECURSIVE Join(_, _)
Join(parts, sep) ==
  IF Len(parts) = 0 THEN <<>>
  ELSE IF Len(parts) = 1 THEN parts[1]
  ELSE parts[1] \o <<sep>> \o Join(Tail(parts), sep)

U16_MAX == 65535

\* atoi::atoi::<uN>: the leading decimal digits, None when there are none
\* or when the value does not fit
RECURSIVE AtoiAcc(_, _, _, _)
AtoiAcc(s, i, acc, max) ==
  IF i > Len(s) \/ ~IsDigit(s[i]) THEN
    IF i = 1 THEN <<>> ELSE <<acc>>
  ELSE IF acc * 10 + DigitVal(s[i]) > max THEN <<>>
  ELSE AtoiAcc(s, i + 1, acc * 10 + DigitVal(s[i]), max)

Atoi(s, max) == AtoiAcc(s, 1, 0, max)

\* the number a string of decimal digits denotes
RECURSIVE DecimalValue(_)
DecimalValue(s) ==
  IF Len(s) = 0 THEN 0
  ELSE DecimalValue(SubSeq(s, 1, Len(s) - 1)) * 10 + DigitVal(s[Len(s)])

--------------------------------------------------------------------------
(* Field decoders of the title module (title.rs, genre.rs) *)

\* TitleId::try_from: "tt" followed by decimal digits; the identifier is the
\* decoded number, so tt1 and tt01 are the same identifier
TitleIdTryFrom(tok) ==
  IF Len(tok) >= 3 /\ tok[1] = "t" /\ tok[2] = "t"
     /\ \A i \in 3..Len(tok) : IsDigit(tok[i])
  THEN <<DecimalValue(SubSeq(tok, 3, Len(tok)))>>
  ELSE <<>>

W_movie == <<"m", "o", "v", "i", "e">>
W_tvSeries == <<"t", "v", "S", "e", "r", "i", "e", "s">>
W_tvEpisode == <<"t", "v", "E", "p", "i", "s", "o", "d", "e">>

\* TitleType::from_str over the enumerated classification tokens
TitleTypeFromStr(tok) ==
  IF tok = W_movie THEN <<"Movie">>
  ELSE IF tok = W_tvSeries THEN <<"TvSeries">>
  ELSE IF tok = W_tvEpisode THEN <<"TvEpisode">>
  ELSE <<>>

\* TitleType::is_movie
IsMovie(tt) == tt = "Movie"

\* TitleType::is_series
IsSeries(tt) == tt = "TvSeries"

W_Drama == <<"D", "r", "a", "m", "a">>
W_Comedy == <<"C", "o", "m", "e", "d", "y">>

\* Genre::from_str over the genre enumeration
GenreFromStr(tok) ==
  IF tok = W_Drama THEN <<"Drama">>
  ELSE IF tok = W_Comedy THEN <<"Comedy">>
  ELSE <<>>

--------------------------------------------------------------------------
(* Basics: one shard (imdb/basics.rs) *)

\* Basics::default()
BasicsDefault ==
  [movies |-> <<>>, movies_titles |-> <<>>,
   series |-> <<>>, series_titles |-> <<>>]

Ok == [ok |-> TRUE, err |-> "", title |-> <<>>]

Fail(e) == [ok |-> FALSE, err |-> e, title |-> <<>>]

\* Option<u16> field: the sentinel is None, anything else goes through atoi
OptU16(tok) == IF tok = NOT_AVAIL THEN <<>> ELSE Atoi(tok, U16_MAX)

OptU16Bad(tok) == tok # NOT_AVAIL /\ Atoi(tok, U16_MAX) = <<>>

\* the genre list of a line: every comma-separated token through Genre::from_str
GenreToks(tok) == IF tok = NOT_AVAIL THEN <<>> ELSE Split(tok, COMMA)

GenresBad(tok) ==
  \E i \in 1..Len(GenreToks(tok)) : GenreFromStr(GenreToks(tok)[i]) = <<>>

GenresOf(tok) ==
  {GenreFromStr(GenreToks(tok)[i])[1] : i \in 1..Len(GenreToks(tok))}

\* the mutation: no classification is discarded
DiscardedNever(tt) == FALSE

\* if !title_type.is_movie() && !title_type.is_series() { return Ok(()) }
Discarded(tt) == ~IsMovie(tt) /\ ~IsSeries(tt)

\* add_basics_from_line up to the construction of the TitleBasics value:
\* the fields are decoded in order, the first failure is returned, and a
\* line that is neither movie nor series returns Ok(()) after two fields
DecodeLine(line) ==
  LET f == Split(line, TAB)
      n == Len(f)
  IN
  IF TitleIdTryFrom(f[1]) = <<>> THEN Fail("TitleId")
  ELSE IF n < 2 THEN Fail("Eof")
  ELSE IF TitleTypeFromStr(f[2]) = <<>> THEN Fail("TitleType")
  ELSE IF Discarded(TitleTypeFromStr(f[2])[1]) THEN Ok
  ELSE IF n < 5 THEN Fail("Eof")
  ELSE IF f[5] # ZERO /\ f[5] # ONE THEN Fail("Adult")
  ELSE IF n < 6 THEN Fail("Eof")
  ELSE IF OptU16Bad(f[6]) THEN Fail("StartYear")
  ELSE IF n < 7 THEN Fail("Eof")
  ELSE IF OptU16Bad(f[7]) THEN Fail("EndYear")
  ELSE IF n < 8 THEN Fail("Eof")
  ELSE IF OptU16Bad(f[8]) THEN Fail("RuntimeMinutes")
  ELSE IF n < 9 THEN Fail("Eof")
  ELSE IF GenresBad(f[9]) THEN Fail("Genre")
  ELSE [ok |-> TRUE, err |-> "",
        title |-> << [title_id |-> TitleIdTryFrom(f[1])[1],
                      title_type |-> TitleTypeFromStr(f[2])[1],
                      primary_title |-> f[3],
                      original_title |-> f[4],
                      is_adult |-> (f[5] = ONE),
                      start_year |-> OptU16(f[6]),
                      end_year |-> OptU16(f[7]),
                      runtime_minutes |-> OptU16(f[8]),
                      genres |-> GenresOf(f[9])] >>]

\* insert_title with the year bucket overwritten instead of pushed to
InsertTitleOverwrite(map, cookie, title, year) ==
  [t \in DOMAIN map \cup {title} |->
     IF t = title
     THEN [y \in (IF t \in DOMAIN map THEN DOMAIN map[t] ELSE {}) \cup {year} |->
             IF y = year THEN <<cookie>> ELSE map[t][y]]
     ELSE map[t]]

\* Basics::insert_title: push the cookie on the (title, year) list, making
\* the year map and the list when they are not there yet
InsertTitle(map, cookie, title, year) ==
  IF title \in DOMAIN map THEN
    [t \in DOMAIN map |->
       IF t # title THEN map[t]
       ELSE IF year \in DOMAIN map[t]
         THEN [map[t] EXCEPT ![year] = Append(@, cookie)]
         ELSE [y \in DOMAIN map[t] \cup {year} |->
                 IF y = year THEN <<cookie>> ELSE map[t][y]]]
  ELSE
    [t \in DOMAIN map \cup {title} |->
       IF t = title THEN [y \in {year} |-> <<cookie>>] ELSE map[t]]

\* the cookie taken after the push
NewCookieAfterPush(records) == Len(records) + 1

\* MoviesCookie::from(self.movies.len()), taken before the push
NewCookie(records) == Len(records)

\* the original name never registered
RegistersOriginalNever(title) == FALSE

\* the guard of the second registration: original_title != primary_title
RegistersOriginal(title) == title.original_title # title.primary_title

\* the registrations of one pushed record in its name index
RegisterNames(map, cookie, title) ==
  LET m1 == InsertTitle(map, cookie, ToLowercase(title.primary_title),
                        title.start_year)
  IN IF RegistersOriginal(title)
     THEN InsertTitle(m1, cookie, ToLowercase(title.original_title),
                      title.start_year)
     ELSE m1

\* the mutation: series are stored and registered with the movies
AddBasicsFromLineUnsorted(b, line) ==
  LET d == DecodeLine(line) IN
  IF ~d.ok \/ d.title = <<>> THEN b
  ELSE LET title == d.title[1] IN
    [b EXCEPT !.movies = Append(@, title),
              !.movies_titles = RegisterNames(@, NewCookie(b.movies), title)]

\* the mutation: the record is put in front of the sequence
AddBasicsFromLinePrepending(b, line) ==
  LET d == DecodeLine(line) IN
  IF ~d.ok \/ d.title = <<>> THEN b
  ELSE LET title == d.title[1] IN
    IF IsMovie(title.title_type) THEN
      [b EXCEPT !.movies = <<title>> \o @,
                !.movies_titles = RegisterNames(@, NewCookie(b.movies), title)]
    ELSE IF IsSeries(title.title_type) THEN
      [b EXCEPT !.series = <<title>> \o @,
                !.series_titles = RegisterNames(@, NewCookie(b.series), title)]
    ELSE b

\* the shard after add_basics_from_line(line)
AddBasicsFromLine(b, line) ==
  LET d == DecodeLine(line) IN
  IF ~d.ok \/ d.title = <<>> THEN b
  ELSE LET title == d.title[1] IN
    IF IsMovie(title.title_type) THEN
      [b EXCEPT !.movies = Append(@, title),
                !.movies_titles = RegisterNames(@, NewCookie(b.movies), title)]
    ELSE IF IsSeries(title.title_type) THEN
      [b EXCEPT !.series = Append(@, title),
                !.series_titles = RegisterNames(@, NewCookie(b.series), title)]
    ELSE b

\* the mutation: a repeated identifier is reported after the record has
\* been pushed
AddBasicsResultAfterPush(b, line) ==
  LET d == DecodeLine(line) IN
  IF ~d.ok THEN d.err
  ELSE IF d.title # <<>>
          /\ \E r \in Range(b.movies) \cup Range(b.series) :
               r.title_id = d.title[1].title_id
    THEN "DuplicateId"
  ELSE "Ok"

\* what add_basics_from_line(line) returns: "Ok" or the error
AddBasicsResult(b, line) ==
  IF DecodeLine(line).ok THEN "Ok" ELSE DecodeLine(line).err

--------------------------------------------------------------------------
(* Lookups of a shard *)

\* Vec::get_unchecked(index.0): the record at the cookie; outside the
\* sequence the read is undefined and g stands for whatever it yields
GetUnchecked(records, cookie, g) ==
  IF cookie < Len(records) THEN records[cookie + 1] ELSE g

RECURSIVE Flatten(_)
Flatten(ss) == IF Len(ss) = 0 THEN <<>> ELSE ss[1] \o Flatten(Tail(ss))

\* every order in which a hash map may iterate over the key set S
RECURSIVE Orderings(_)
Orderings(S) ==
  IF S = {} THEN {<<>>}
  ELSE UNION {{<<x>> \o o : o \in Orderings(S \ {x})} : x \in S}

\* by_year.get(&Some(year)) below titles.get(name): the cookie list, or none
CookiesByTitleYear(map, name, year) ==
  IF name \in DOMAIN map /\ <<year>> \in DOMAIN map[name]
  THEN map[name][<<year>>]
  ELSE <<>>

\* the mutation: only the first year bucket is walked
CookiesByTitleFirstBucket(map, name, ord) ==
  IF Len(ord) = 0 THEN <<>> ELSE map[name][ord[1]]

\* by_year.values().flatten() below titles.get(name), for the iteration
\* order ord of the year keys
CookiesByTitle(map, name, ord) ==
  Flatten([i \in 1..Len(ord) |-> map[name][ord[i]]])

\* the iteration orders of the year map of a name (one empty order when the
\* name is not registered)
YearOrders(map, name) ==
  IF name \in DOMAIN map THEN Orderings(DOMAIN map[name]) ELSE {<<>>}

Deref(records, cookies, g) ==
  [i \in 1..Len(cookies) |-> GetUnchecked(records, cookies[i], g)]

\* Basics::movies_by_title_year
MoviesByTitleYear(b, name, year, g) ==
  Deref(b.movies, CookiesByTitleYear(b.movies_titles, name, year), g)

\* Basics::series_by_title_year
SeriesByTitleYear(b, name, year, g) ==
  Deref(b.series, CookiesByTitleYear(b.series_titles, name, year), g)

\* Basics::movies_by_title: one result per iteration order of the year map
MoviesByTitle(b, name, g) ==
  {Deref(b.movies, CookiesByTitle(b.movies_titles, name, ord), g) :
     ord \in YearOrders(b.movies_titles, name)}

\* Basics::series_by_title
SeriesByTitle(b, name, g) ==
  {Deref(b.series, CookiesByTitle(b.series_titles, name, ord), g) :
     ord \in YearOrders(b.series_titles, name)}

\* the letters of the alphabet the inputs are written in
Letters ==
  {"a", "b", "c", "d", "e", "f", "g", "h", "i", "j", "k", "l", "m", "n", "o",
   "p", "q", "r", "s", "t", "u", "v", "w", "x", "y", "z"}
  \cup Range(Upper)

IsAlphanumeric(c) == IsDigit(c) \/ c \in Letters

\* tokenize: lowercase, split on the characters that are not alphanumeric,
\* drop the empty tokens; the result is a set of words
Tokenize(text) ==
  LET spaced == [i \in 1..Len(text) |->
                   IF IsAlphanumeric(text[i]) THEN LowerChar(text[i]) ELSE " "]
  IN Range(Split(spaced, " ")) \ {<<>>}

\* KeywordSet::matches(title): every keyword is a word of the title
KeywordMatches(keywords, title) == keywords \subseteq Tokenize(title)

\* titles.iter().filter(|(title, _)| keywords.matches(title)): the names kept
MatchingNames(map, keywords) ==
  {title \in DOMAIN map : KeywordMatches(keywords, title)}

\* for the names in M, every choice of one iteration order of the year map
\* of each name
YearOrderChoices(map, M) ==
  {yo \in [M -> UNION {Orderings(DOMAIN map[t]) : t \in M}] :
     \A t \in M : yo[t] \in Orderings(DOMAIN map[t])}

\* the mutation: only the first year bucket of a kept name is walked
CookiesByKeywordFirstBucket(map, keywords) ==
  LET M == MatchingNames(map, keywords)
  IN {Flatten([i \in 1..Len(no) |-> map[no[i]][yo[no[i]][1]]]) :
        no \in Orderings(M), yo \in YearOrderChoices(map, M)}

\* .map(|(_, by_year)| by_year.values().flatten()).flatten(): the cookies of
\* the kept names, for every iteration order of the name map and of the
\* year maps
CookiesByKeyword(map, keywords) ==
  LET M == MatchingNames(map, keywords)
  IN {Flatten([i \in 1..Len(no) |-> CookiesByTitle(map, no[i], yo[no[i]])]) :
        no \in Orderings(M), yo \in YearOrderChoices(map, M)}

\* Basics::movies_by_keyword: the possible results
MoviesByKeyword(b, keywords, g) ==
  {Deref(b.movies, cs, g) : cs \in CookiesByKeyword(b.movies_titles, keywords)}

\* Basics::series_by_keyword
SeriesByKeyword(b, keywords, g) ==
  {Deref(b.series, cs, g) : cs \in CookiesByKeyword(b.series_titles, keywords)}

\* Basics::n_movies
NMovies(b) == Len(b.movies)

\* Basics::n_series
NSeries(b) == Len(b.series)

--------------------------------------------------------------------------
(* Inputs *)

ID1 == <<"t", "t", "1">>
ID01 == <<"t", "t", "0", "1">>
ID2 == <<"t", "t", "2">>
ID3 == <<"t", "t", "3">>
N_Test == <<"T", "e", "s", "t">>
N_TEST == <<"T", "E", "S", "T">>
N_Other == <<"O", "t", "h", "e", "r">>
Y2000 == <<"2", "0", "0", "0">>
Y2001 == <<"2", "0", "0", "1">>
R90 == <<"9", "0">>
TWO == <<"2">>
N_TestOther == <<"T", "e", "s", "t", " ", "O", "t", "h", "e", "r">>

Line(fields) == Join(fields, TAB)

\* title lines: same and different names, names that differ in case only,
\* a repeated identifier in both classifications, a discarded
\* classification and a malformed line
L_Test == Line(<<ID1, W_movie, N_Test, N_Test, ZERO, Y2000, NOT_AVAIL, R90, W_Drama>>)
L_Other == Line(<<ID2, W_movie, N_Other, N_Other, ZERO, NOT_AVAIL, NOT_AVAIL, NOT_AVAIL, NOT_AVAIL>>)
L_Case == Line(<<ID3, W_movie, N_Test, N_TEST, ZERO, Y2000, NOT_AVAIL, NOT_AVAIL, Join(<<W_Drama, W_Comedy>>, COMMA)>>)
L_Series == Line(<<ID01, W_tvSeries, N_Other, N_Test, ONE, Y2001, Y2001, NOT_AVAIL, NOT_AVAIL>>)
L_Dup == Line(<<ID1, W_movie, N_Other, N_Test, ZERO, Y2000, NOT_AVAIL, NOT_AVAIL, NOT_AVAIL>>)
L_Episode == Line(<<ID2, W_tvEpisode>>)
L_BadAdult == Line(<<ID3, W_movie, N_Test, N_Test, TWO, Y2000, NOT_AVAIL, R90, W_Drama>>)
\* a name of two words
L_Two == Line(<<ID2, W_movie, N_TestOther, N_TestOther, ZERO, Y2001, NOT_AVAIL, NOT_AVAIL, NOT_AVAIL>>)

ShardLines ==
  {L_Test, L_Other, L_Case, L_Series, L_Dup, L_Episode, L_BadAdult, L_Two}

\* names and years asked for
QueryNames ==
  {N_Test, N_Other} \cup {ToLowercase(x) : x \in {N_Test, N_TEST, N_Other}}

QueryYears == {2000, 2001}

\* keyword sets asked for: one word, and two words in either order
KW_Test == {ToLowercase(N_Test)}
KW_Other == {ToLowercase(N_Other)}
QueryKeywords == {KW_Test, KW_Other, KW_Test \cup KW_Other}

\* what an out-of-bounds read may yield
Garbage == {DecodeLine(L_Test).title[1], DecodeLine(L_Series).title[1]}

--------------------------------------------------------------------------
(* One shard driven through its interface *)

\* no Service is being built or queried
ServiceOff ==
  /\ ncpus = 0
  /\ storage = <<>>
  /\ opc = "off"
  /\ spawn_i = 0
  /\ handles = <<>>
  /\ join_j = 0
  /\ basics_dbs = <<>>
  /\ ratings_db = <<>>
  /\ rpos = 0
  /\ source = 0
  /\ mutex = <<>>
  /\ wpc = <<>>
  /\ lines = <<>>
  /\ lidx = <<>>
  /\ shard = <<>>
  /\ inserted = <<>>
  /\ errors = {}
  /\ failure = <<>>
  /\ qpc = "idle"
  /\ qf = <<>>
  /\ qi = 0
  /\ qhandles = <<>>
  /\ qj = 0
  /\ qthr = <<>>
  /\ qacc = <<>>
  /\ qerrs = {}
  /\ qret = <<>>

InitShard ==
  /\ db = BasicsDefault
  /\ calls = <<>>
  /\ rets = <<>>
  /\ found = <<>>
  /\ ServiceOff

Insert ==
  \E line \in ShardLines :
    /\ Len(calls) < MaxInserts
    /\ db' = AddBasicsFromLine(db, line)
    /\ calls' = Append(calls, line)
    /\ rets' = Append(rets, AddBasicsResult(db, line))
    /\ UNCHANGED <<found, serviceVars>>

LookupByTitleYear ==
  \E movies \in BOOLEAN, name \in QueryNames, year \in QueryYears, g \in Garbage :
    /\ found' = IF movies THEN MoviesByTitleYear(db, name, year, g)
                ELSE SeriesByTitleYear(db, name, year, g)
    /\ UNCHANGED <<db, calls, rets, serviceVars>>

LookupByTitle ==
  \E movies \in BOOLEAN, name \in QueryNames, g \in Garbage :
    /\ found' \in (IF movies THEN MoviesByTitle(db, name, g)
                   ELSE SeriesByTitle(db, name, g))
    /\ UNCHANGED <<db, calls, rets, serviceVars>>

LookupByKeyword ==
  \E movies \in BOOLEAN, keywords \in QueryKeywords, g \in Garbage :
    /\ found' \in (IF movies THEN MoviesByKeyword(db, keywords, g)
                   ELSE SeriesByKeyword(db, keywords, g))
    /\ UNCHANGED <<db, calls, rets, serviceVars>>

NextShard == Insert \/ LookupByTitleYear \/ LookupByTitle \/ LookupByKeyword

SpecShard == InitShard /\ [][NextShard]_vars

\* lines that fail in each field add_basics_from_line decodes
BAD == <<"x">>
L_BadId == Line(<<BAD, W_movie, N_Test, N_Test, ZERO, Y2000, NOT_AVAIL, R90, W_Drama>>)
L_Short == Line(<<ID1, W_movie, N_Test, N_Test>>)
L_BadType == Line(<<ID1, BAD, N_Test, N_Test, ZERO, Y2000, NOT_AVAIL, R90, W_Drama>>)
L_BadYear == Line(<<ID1, W_movie, N_Test, N_Test, ZERO, BAD, NOT_AVAIL, R90, W_Drama>>)
L_BadEnd == Line(<<ID01, W_tvSeries, N_Other, N_Test, ONE, Y2001, BAD, NOT_AVAIL, NOT_AVAIL>>)
L_BadRuntime == Line(<<ID1, W_movie, N_Test, N_Test, ZERO, Y2000, NOT_AVAIL, BAD, W_Drama>>)
L_BadGenre == Line(<<ID1, W_movie, N_Test, N_Test, ZERO, Y2000, NOT_AVAIL, R90, BAD>>)

MalformedLines ==
  {L_BadId, L_Short, L_BadType, L_BadAdult, L_BadYear, L_BadEnd, L_BadRuntime,
   L_BadGenre}

\* add_basics_from_line called with a line that parses or with one that
\* does not
InsertAny ==
  \E line \in {L_Test, L_Series, L_Case} \cup MalformedLines :
    /\ Len(calls) < MaxInserts
    /\ db' = AddBasicsFromLine(db, line)
    /\ calls' = Append(calls, line)
    /\ rets' = Append(rets, AddBasicsResult(db, line))
    /\ UNCHANGED <<found, serviceVars>>

\* one shard that is only inserted into
SpecInsert == InitShard /\ [][InsertAny]_vars

--------------------------------------------------------------------------
(* Properties of one shard *)

\* the record a call stored, when it stored one
Stored(line) == DecodeLine(line).title

\* C3: when two lines carrying the same identifier are inserted into one
\* shard, the second insert fails with DuplicateIdentifier, whatever the
\* classifications and the other fields of the two records are
C3_DuplicateIdentifierFails ==
  \A i, j \in 1..Len(calls) :
    (/\ i < j
     /\ Stored(calls[i]) # <<>>
     /\ Stored(calls[j]) # <<>>
     /\ Stored(calls[i])[1].title_id = Stored(calls[j])[1].title_id)
    => rets[j] = "DuplicateId"

\* C5: every valid movie or series line with a start year y that has been
\* inserted is returned by the lookup by (lowercased primary name, y) of its
\* classification, in every later state of the shard
C5_InsertThenLookupByTitleYear ==
  \A i \in 1..Len(calls) :
    (Stored(calls[i]) # <<>> /\ Stored(calls[i])[1].start_year # <<>>) =>
      LET t == Stored(calls[i])[1]
          name == ToLowercase(t.primary_title)
          y == t.start_year[1]
      IN \A g \in Garbage :
           t \in Range(IF IsMovie(t.title_type)
                       THEN MoviesByTitleYear(db, name, y, g)
                       ELSE SeriesByTitleYear(db, name, y, g))

\* a line was inserted, a second line with the same name and year came
\* after it, and the lookup still returns the first record
C5_Witness ==
  /\ calls = <<L_Test, L_Case>>
  /\ Len(found) >= 2
  /\ found[1] = Stored(L_Test)[1]

\* the cookies a name index holds
CookiesOf(map) ==
  UNION {UNION {Range(map[t][y]) : y \in DOMAIN map[t]} : t \in DOMAIN map}

\* C6: every cookie of the movie name index is smaller than the length of
\* the movie sequence, every cookie of the series name index smaller than the
\* length of the series sequence
C6_CookiesInBounds ==
  /\ \A c \in CookiesOf(db.movies_titles) : c < Len(db.movies)
  /\ \A c \in CookiesOf(db.series_titles) : c < Len(db.series)

\* both indices hold cookies, the movie index more than one, and a lookup
\* has dereferenced some
C6_Witness ==
  /\ Cardinality(CookiesOf(db.movies_titles)) = 2
  /\ Cardinality(CookiesOf(db.series_titles)) = 1
  /\ found # <<>>

NoRepeat(s) == \A i, j \in 1..Len(s) : s[i] = s[j] => i = j

\* C7: no cookie occurs more than once in the cookie list of any
\* (lowercased name, year) key of a name index
C7_NoCookieTwiceUnderOneKey ==
  \A map \in {db.movies_titles, db.series_titles} :
    \A t \in DOMAIN map : \A y \in DOMAIN map[t] : NoRepeat(map[t][y])

\* the record at cookie c of a classification resolves under name: it is
\* registered under its start year and every by-name lookup returns it
Resolves(records, map, results, c, name) ==
  /\ name \in DOMAIN map
  /\ records[c + 1].start_year \in DOMAIN map[name]
  /\ c \in Range(map[name][records[c + 1].start_year])
  /\ \A res \in results : records[c + 1] \in Range(res)

\* C8: every stored record whose original name differs from its primary
\* name is returned by the by-name lookup of its classification for the
\* lowercased primary name and for the lowercased original name, and is
\* registered under its start year (the no-year key when it has none)
C8_BothNamesResolve ==
  /\ \A k \in 1..Len(db.movies) :
       db.movies[k].original_title # db.movies[k].primary_title =>
         \A name \in {ToLowercase(db.movies[k].primary_title),
                      ToLowercase(db.movies[k].original_title)} :
           Resolves(db.movies, db.movies_titles,
                    UNION {MoviesByTitle(db, name, g) : g \in Garbage},
                    k - 1, name)
  /\ \A k \in 1..Len(db.series) :
       db.series[k].original_title # db.series[k].primary_title =>
         \A name \in {ToLowercase(db.series[k].primary_title),
                      ToLowercase(db.series[k].original_title)} :
           Resolves(db.series, db.series_titles,
                    UNION {SeriesByTitle(db, name, g) : g \in Garbage},
                    k - 1, name)

\* a series whose names differ is stored behind another series and a lookup
\* has returned it
C8_Witness ==
  /\ Len(db.series) = 2
  /\ db.series[2] = Stored(L_Series)[1]
  /\ Stored(L_Series)[1] \in Range(found)

--------------------------------------------------------------------------
(* Ratings (imdb/ratings.rs) *)

\* atoi::<u64> on a vote count: the value of the leading digits (the counts
\* explored stay far below 2^64, so the overflow case does not arise)
RECURSIVE DigitPrefix(_)
DigitPrefix(s) ==
  IF Len(s) = 0 \/ ~IsDigit(s[1]) THEN <<>>
  ELSE <<s[1]>> \o DigitPrefix(Tail(s))

AtoiU64(tok) ==
  IF DigitPrefix(tok) = <<>> THEN <<>> ELSE <<DecimalValue(DigitPrefix(tok))>>

\* f32::from_str followed by * 10.0, for the decimals of the dump: digits,
\* a point and one fractional digit, or digits alone, with an optional minus
\* sign. The result is the number of tenths, which the f32 product is
\* exactly (ten times the nearest f32 of d.d rounds to the integer)
TimesTen(tok) ==
  LET neg == Len(tok) > 0 /\ tok[1] = "-"
      body == IF neg THEN Tail(tok) ELSE tok
      parts == Split(body, ".")
      AllDigits(x) == Len(x) > 0 /\ \A i \in 1..Len(x) : IsDigit(x[i])
      sign == IF neg THEN 0 - 1 ELSE 1
  IN IF Len(parts) = 1 /\ AllDigits(parts[1])
       THEN <<sign * DecimalValue(parts[1]) * 10>>
     ELSE IF Len(parts) = 2 /\ AllDigits(parts[1]) /\ Len(parts[2]) = 1
             /\ IsDigit(parts[2][1])
       THEN <<sign * (DecimalValue(parts[1]) * 10 + DigitVal(parts[2][1]))>>
     ELSE <<>>

U8_MAX == 255

\* f32::to_int_unchecked::<u8>: the truncated value when it fits, otherwise
\* undefined, ub standing for the byte the build produces
ToIntUnchecked(x, ub) == IF 0 <= x /\ x <= U8_MAX THEN x ELSE ub

\* bytes an out-of-range conversion may leave
UbBytes == {0, U8_MAX}

\* the mutation: what insert returns is not looked at
AddRatingFromLineOverwriting(map, line, ub) ==
  LET f == Split(line, TAB)
      n == Len(f)
  IN
  IF line = <<>> THEN [ret |-> "Ok", map |-> map]
  ELSE IF TitleIdTryFrom(f[1]) = <<>> THEN [ret |-> "TitleId", map |-> map]
  ELSE IF n < 2 THEN [ret |-> "Eof", map |-> map]
  ELSE IF TimesTen(f[2]) = <<>> THEN [ret |-> "ParseFloat", map |-> map]
  ELSE IF n < 3 THEN [ret |-> "Eof", map |-> map]
  ELSE IF AtoiU64(f[3]) = <<>> THEN [ret |-> "Votes", map |-> map]
  ELSE LET id == TitleIdTryFrom(f[1])[1]
           pair == <<ToIntUnchecked(TimesTen(f[2])[1], ub), AtoiU64(f[3])[1]>>
           put == [k \in DOMAIN map \cup {id} |-> IF k = id THEN pair ELSE map[k]]
       IN [ret |-> "Ok", map |-> put]

\* Ratings::add_rating_from_line: the error or "Ok", and the map afterwards
AddRatingFromLine(map, line, ub) ==
  LET f == Split(line, TAB)
      n == Len(f)
  IN
  IF line = <<>> THEN [ret |-> "Ok", map |-> map]
  ELSE IF TitleIdTryFrom(f[1]) = <<>> THEN [ret |-> "TitleId", map |-> map]
  ELSE IF n < 2 THEN [ret |-> "Eof", map |-> map]
  ELSE IF TimesTen(f[2]) = <<>> THEN [ret |-> "ParseFloat", map |-> map]
  ELSE IF n < 3 THEN [ret |-> "Eof", map |-> map]
  ELSE IF AtoiU64(f[3]) = <<>> THEN [ret |-> "Votes", map |-> map]
  ELSE LET id == TitleIdTryFrom(f[1])[1]
           pair == <<ToIntUnchecked(TimesTen(f[2])[1], ub), AtoiU64(f[3])[1]>>
           put == [k \in DOMAIN map \cup {id} |-> IF k = id THEN pair ELSE map[k]]
       IN [ret |-> IF id \in DOMAIN map THEN "DuplicateId" ELSE "Ok",
           map |-> put]

\* Ratings::get
RatingsGet(map, id) == IF id \in DOMAIN map THEN <<map[id]>> ELSE <<>>

--------------------------------------------------------------------------
(* Input buffers *)

HEADER == <<"h">>

R84 == <<"8", ".", "4">>
R70 == <<"7", ".", "0">>
R256 == <<"2", "5", ".", "6">>
R200 == <<"2", "0", ".", "0">>
V15 == <<"1", "5">>

RL_1 == Line(<<ID1, R84, V15>>)
RL_Dup == Line(<<ID01, R70, V15>>)
RL_Big == Line(<<ID3, R256, V15>>)
RL_200 == Line(<<ID2, R200, V15>>)

\* buffers end in a newline, so the last line of every split is empty
Buffer(ls) == Join(<<HEADER>> \o ls \o << <<>> >>, NL)

RatingsBuffers ==
  {Buffer(<<RL_1, RL_200>>), Buffer(<<RL_Big, RL_1, RL_Dup>>)}

\* title lines of the load: a movie, a series and a line that does not
\* parse (the empty line is the one every buffer ends in)
LoadLines == {L_Test, L_Series, L_BadAdult}

RECURSIVE SeqsUpTo(_, _)
SeqsUpTo(S, k) ==
  IF k = 0 THEN {<<>>}
  ELSE SeqsUpTo(S, k - 1) \cup
       {Append(q, x) : q \in {r \in SeqsUpTo(S, k - 1) : Len(r) = k - 1}, x \in S}

TitleBuffers == {Buffer(ls) : ls \in SeqsUpTo(LoadLines, MaxLines)}

--------------------------------------------------------------------------
(* Service::new and Service::parse_basics (imdb/service.rs) *)

\* let ncpus = num_cpus::get() / 2
N == ncpus \div 2

Workers == 0..(N - 1)

\* storage.basics_db_buf.split(|&b| b == b'\n')
BasicsLines == Split(storage.basics_db_buf, NL)

\* buf.split(|&b| b == b'\n') of the ratings buffer
RatingsLines == Split(storage.ratings_db_buf, NL)

\* .skip(1): the header line is consumed before the first batch
SKIP == 1

Min(a, b) == IF a < b THEN a ELSE b

\* the cursor skipping one line more than it hands out
SourceAfterTakeSkipping(pos, total) == Min(pos + ChunkSize + 1, total)

\* the shared iterator after take(ChunkSize) from position pos
SourceAfterTake(pos, total) == Min(pos + ChunkSize, total)

\* the line numbers take(ChunkSize) hands out from position pos
Batch(pos, total) ==
  [k \in 1..Min(ChunkSize, total - pos) |-> pos + k]

\* a join that does not wait for the thread
TerminatedAlways(state) == TRUE

\* a thread whose closure has returned or panicked, so that join returns
Terminated(state) == state \in {"finished", "panicked"}

Init ==
  /\ db = BasicsDefault
  /\ calls = <<>>
  /\ rets = <<>>
  /\ found = <<>>
  /\ ncpus \in 1..MaxCpus
  /\ storage = <<>>
  /\ opc = "load"
  /\ spawn_i = 0
  /\ handles = <<>>
  /\ join_j = 0
  /\ basics_dbs = <<>>
  /\ ratings_db = <<>>
  /\ rpos = 0
  /\ source = 0
  /\ mutex = <<>>
  /\ wpc = [i \in Workers |-> "unspawned"]
  /\ lines = [i \in Workers |-> <<>>]
  /\ lidx = [i \in Workers |-> 0]
  /\ shard = [i \in Workers |-> BasicsDefault]
  /\ inserted = [i \in Workers |-> <<>>]
  /\ errors = {}
  /\ failure = <<>>
  /\ qpc = "idle"
  /\ qf = <<>>
  /\ qi = 0
  /\ qhandles = <<>>
  /\ qj = 0
  /\ qthr = <<>>
  /\ qacc = <<>>
  /\ qerrs = {}
  /\ qret = <<>>

\* Storage::load_db_files(app_cache_dir)?: the two buffers
LoadDbFiles ==
  /\ opc = "load"
  /\ \E b \in TitleBuffers, r \in RatingsBuffers :
       storage' = [basics_db_buf |-> b, ratings_db_buf |-> r]
  /\ opc' = "spawn"
  /\ source' = SKIP
  /\ UNCHANGED <<ncpus, spawn_i, handles, join_j, basics_dbs, ratings_db, rpos,
                 mutex, wpc, lines, lidx, shard, inserted, errors>>
  /\ UNCHANGED <<shardVars, queryVars, failure>>

\* Storage::load_db_files(app_cache_dir)? returning the error
LoadDbFilesErr ==
  /\ opc = "load"
  /\ opc' = "failed"
  /\ failure' = <<"Storage">>
  /\ UNCHANGED <<ncpus, storage, spawn_i, handles, join_j, basics_dbs,
                 ratings_db, rpos, source, mutex, wpc, lines, lidx, shard,
                 inserted, errors>>
  /\ UNCHANGED <<shardVars, queryVars>>

\* for i in 0..n: spawn returned Ok(handle); the thread starts its closure
SpawnOk ==
  /\ opc = "spawn"
  /\ spawn_i < N
  /\ wpc' = [wpc EXCEPT ![spawn_i] = "lock"]
  /\ handles' = Append(handles, spawn_i)
  /\ spawn_i' = spawn_i + 1
  /\ UNCHANGED <<ncpus, storage, opc, join_j, basics_dbs, ratings_db, rpos,
                 source, mutex, lines, lidx, shard, inserted, errors>>
  /\ UNCHANGED <<shardVars, queryVars, failure>>

\* for i in 0..n: spawn returned Err(e), which is logged
SpawnErr ==
  /\ opc = "spawn"
  /\ spawn_i < N
  /\ errors' = errors \cup {<<"spawn", spawn_i>>}
  /\ spawn_i' = spawn_i + 1
  /\ UNCHANGED <<ncpus, storage, opc, handles, join_j, basics_dbs, ratings_db,
                 rpos, source, mutex, wpc, lines, lidx, shard, inserted>>
  /\ UNCHANGED <<shardVars, queryVars, failure>>

\* the spawn loop is over
SpawnDone ==
  /\ opc = "spawn"
  /\ spawn_i = N
  /\ opc' = "join"
  /\ UNCHANGED <<ncpus, storage, spawn_i, handles, join_j, basics_dbs,
                 ratings_db, rpos, source, mutex, wpc, lines, lidx, shard,
                 inserted, errors>>
  /\ UNCHANGED <<shardVars, queryVars, failure>>

\* the mutation: the lock is handed out while another worker holds it
LockNoWait(i) ==
  /\ wpc[i] = "lock"
  /\ mutex' = <<i>>
  /\ wpc' = [wpc EXCEPT ![i] = "take"]
  /\ UNCHANGED <<ncpus, storage, opc, spawn_i, handles, join_j, basics_dbs,
                 ratings_db, rpos, source, lines, lidx, shard, inserted, errors>>
  /\ UNCHANGED <<shardVars, queryVars, failure>>

\* basics_source.lock(): worker i gets the mutex
Lock(i) ==
  /\ wpc[i] = "lock"
  /\ mutex = <<>>
  /\ mutex' = <<i>>
  /\ wpc' = [wpc EXCEPT ![i] = "take"]
  /\ UNCHANGED <<ncpus, storage, opc, spawn_i, handles, join_j, basics_dbs,
                 ratings_db, rpos, source, lines, lidx, shard, inserted, errors>>
  /\ UNCHANGED <<shardVars, queryVars, failure>>

\* lines.extend(...take(200_000)) under the lock, the guard dropped at the
\* end of the statement, then the is_empty test
TakeBatch(i) ==
  /\ wpc[i] = "take"
  /\ LET total == Len(BasicsLines)
         got == lines[i] \o Batch(source, total)
     IN /\ lines' = [lines EXCEPT ![i] = got]
        /\ source' = SourceAfterTake(source, total)
        /\ wpc' = [wpc EXCEPT ![i] = IF got = <<>> THEN "finished" ELSE "insert"]
  /\ lidx' = [lidx EXCEPT ![i] = 1]
  /\ mutex' = <<>>
  /\ UNCHANGED <<ncpus, storage, opc, spawn_i, handles, join_j, basics_dbs,
                 ratings_db, rpos, shard, inserted, errors>>
  /\ UNCHANGED <<shardVars, queryVars, failure>>

\* one iteration of for &line in &lines, and lines.clear() after the last
InsertLine(i) ==
  /\ wpc[i] = "insert"
  /\ LET no == lines[i][lidx[i]]
         line == BasicsLines[no]
         last == lidx[i] = Len(lines[i])
     IN IF line = <<>> THEN
          /\ UNCHANGED <<shard, inserted>>
          /\ wpc' = [wpc EXCEPT ![i] = IF last THEN "lock" ELSE "insert"]
          /\ lidx' = [lidx EXCEPT ![i] = IF last THEN 0 ELSE @ + 1]
          /\ lines' = [lines EXCEPT ![i] = IF last THEN <<>> ELSE @]
        ELSE IF AddBasicsResult(shard[i], line) # "Ok" THEN
          \* panic!: the closure unwinds and its basics_db is dropped
          /\ inserted' = [inserted EXCEPT ![i] = Append(@, no)]
          /\ wpc' = [wpc EXCEPT ![i] = "panicked"]
          /\ shard' = [shard EXCEPT ![i] = BasicsDefault]
          /\ lidx' = [lidx EXCEPT ![i] = 0]
          /\ lines' = [lines EXCEPT ![i] = <<>>]
        ELSE
          /\ inserted' = [inserted EXCEPT ![i] = Append(@, no)]
          /\ shard' = [shard EXCEPT ![i] = AddBasicsFromLine(@, line)]
          /\ wpc' = [wpc EXCEPT ![i] = IF last THEN "lock" ELSE "insert"]
          /\ lidx' = [lidx EXCEPT ![i] = IF last THEN 0 ELSE @ + 1]
          /\ lines' = [lines EXCEPT ![i] = IF last THEN <<>> ELSE @]
  /\ UNCHANGED <<ncpus, storage, opc, spawn_i, handles, join_j, basics_dbs,
                 ratings_db, rpos, source, mutex, errors>>
  /\ UNCHANGED <<shardVars, queryVars, failure>>

\* handle.join() returned Ok(basics_db), which is pushed
JoinOk ==
  /\ opc = "join"
  /\ join_j < Len(handles)
  /\ Terminated(wpc[handles[join_j + 1]])
  /\ wpc[handles[join_j + 1]] = "finished"
  /\ basics_dbs' = Append(basics_dbs, shard[handles[join_j + 1]])
  /\ join_j' = join_j + 1
  /\ UNCHANGED <<ncpus, storage, opc, spawn_i, handles, ratings_db, rpos, source,
                 mutex, wpc, lines, lidx, shard, inserted, errors>>
  /\ UNCHANGED <<shardVars, queryVars, failure>>

\* handle.join() returned Err(e), which is logged
JoinErr ==
  /\ opc = "join"
  /\ join_j < Len(handles)
  /\ Terminated(wpc[handles[join_j + 1]])
  /\ wpc[handles[join_j + 1]] # "finished"
  /\ errors' = errors \cup {<<"join", join_j>>}
  /\ join_j' = join_j + 1
  /\ UNCHANGED <<ncpus, storage, opc, spawn_i, handles, basics_dbs, ratings_db,
                 rpos, source, mutex, wpc, lines, lidx, shard, inserted>>
  /\ UNCHANGED <<shardVars, queryVars, failure>>

\* the join loop is over, the scope ends once every spawned thread has
\* terminated, and parse_basics returns Ok(basics_dbs)
ParseBasicsReturn ==
  /\ opc = "join"
  /\ join_j = Len(handles)
  /\ \A k \in 1..Len(handles) : Terminated(wpc[handles[k]])
  /\ opc' = "ratings"
  /\ rpos' = SKIP
  /\ UNCHANGED <<ncpus, storage, spawn_i, handles, join_j, basics_dbs,
                 ratings_db, source, mutex, wpc, lines, lidx, shard, inserted,
                 errors>>
  /\ UNCHANGED <<shardVars, queryVars, failure>>

\* Ratings::new_from_buf: one res.add_rating_from_line(line)? of the loop
AddRating ==
  /\ opc = "ratings"
  /\ rpos < Len(RatingsLines)
  /\ \E ub \in UbBytes :
       LET r == AddRatingFromLine(ratings_db, RatingsLines[rpos + 1], ub)
       IN IF r.ret = "Ok"
          THEN /\ ratings_db' = r.map
               /\ rpos' = rpos + 1
               /\ opc' = opc
               /\ failure' = failure
          ELSE \* the error leaves Service::new through the two ?
               /\ ratings_db' = <<>>
               /\ rpos' = rpos
               /\ opc' = "failed"
               /\ failure' = <<r.ret>>
  /\ UNCHANGED <<ncpus, storage, spawn_i, handles, join_j, basics_dbs, source,
                 mutex, wpc, lines, lidx, shard, inserted, errors>>
  /\ UNCHANGED <<shardVars, queryVars>>

\* the ratings loop is over; the counting loop only logs;
\* Ok(Self { basics_dbs, ratings_db })
NewReturn ==
  /\ opc = "ratings"
  /\ rpos = Len(RatingsLines)
  /\ opc' = "ready"
  /\ UNCHANGED <<ncpus, storage, spawn_i, handles, join_j, basics_dbs,
                 ratings_db, rpos, source, mutex, wpc, lines, lidx, shard,
                 inserted, errors>>
  /\ UNCHANGED <<shardVars, queryVars, failure>>

--------------------------------------------------------------------------
(* Service::query, movie, series and rating *)

\* the closures of Service::movie and Service::series: by name and year when
\* a year is given, by name otherwise; the possible results on one shard
QueryFn(b, f, g) ==
  IF f.movies THEN
    IF f.year # <<>> THEN {MoviesByTitleYear(b, f.name, f.year[1], g)}
    ELSE MoviesByTitle(b, f.name, g)
  ELSE
    IF f.year # <<>> THEN {SeriesByTitleYear(b, f.name, f.year[1], g)}
    ELSE SeriesByTitle(b, f.name, g)

\* the queries a caller makes
QueryFns ==
  [movies : BOOLEAN,
   name : {ToLowercase(N_Test)},
   year : {<<>>, <<2000>>}]

\* the keyword queries a caller makes, for either classification
KeywordFns == [movies : BOOLEAN, keywords : {KW_Test}]

\* what a query runs on one shard: the closure of a keyword query hands the
\* keyword set to the shard's lookup by keyword, the other closures are
\* those of Service::movie and Service::series
QueryClosure(b, f, g) ==
  IF "keywords" \in DOMAIN f THEN
    IF f.movies THEN MoviesByKeyword(b, f.keywords, g)
    ELSE SeriesByKeyword(b, f.keywords, g)
  ELSE QueryFn(b, f, g)

RatingIds == {1, 3}

NoThread == [st |-> "none", res |-> <<>>]

QueryIdle ==
  /\ qpc' = "idle"
  /\ qf' = <<>>
  /\ qi' = 0
  /\ qhandles' = <<>>
  /\ qj' = 0
  /\ qthr' = <<>>
  /\ qacc' = <<>>
  /\ qerrs' = {}

\* Service::query entered on a Service that new has returned
QueryStart ==
  /\ opc = "ready"
  /\ qpc = "idle"
  /\ \E f \in QueryFns \cup KeywordFns : qf' = f
  /\ qpc' = "spawn"
  /\ qi' = 0
  /\ qhandles' = <<>>
  /\ qj' = 0
  /\ qthr' = [k \in 1..Len(basics_dbs) |-> NoThread]
  /\ qacc' = <<>>
  /\ qerrs' = {}
  /\ qret' = <<>>
  /\ UNCHANGED <<shardVars, loadVars>>

\* spawn returned Ok(handle) for shard i
QuerySpawnOk ==
  /\ qpc = "spawn"
  /\ qi < Len(basics_dbs)
  /\ qthr' = [qthr EXCEPT ![qi + 1].st = "running"]
  /\ qhandles' = Append(qhandles, qi)
  /\ qi' = qi + 1
  /\ UNCHANGED <<qpc, qf, qj, qacc, qerrs, qret>>
  /\ UNCHANGED <<shardVars, loadVars>>

\* spawn returned Err(e) for shard i, which is logged
QuerySpawnErr ==
  /\ qpc = "spawn"
  /\ qi < Len(basics_dbs)
  /\ qerrs' = qerrs \cup {<<"spawn", qi>>}
  /\ qi' = qi + 1
  /\ UNCHANGED <<qpc, qf, qhandles, qj, qthr, qacc, qret>>
  /\ UNCHANGED <<shardVars, loadVars>>

\* the spawn loop is over
QuerySpawnDone ==
  /\ qpc = "spawn"
  /\ qi = Len(basics_dbs)
  /\ qpc' = "join"
  /\ UNCHANGED <<qf, qi, qhandles, qj, qthr, qacc, qerrs, qret>>
  /\ UNCHANGED <<shardVars, loadVars>>

\* the thread of shard k runs f(db)
QueryRun(k) ==
  /\ qpc \in {"spawn", "join"}
  /\ k \in 1..Len(qthr)
  /\ qthr[k].st = "running"
  /\ \E g \in Garbage : \E r \in QueryClosure(basics_dbs[k], qf, g) :
       qthr' = [qthr EXCEPT ![k] = [st |-> "finished", res |-> r]]
  /\ UNCHANGED <<qpc, qf, qi, qhandles, qj, qacc, qerrs, qret>>
  /\ UNCHANGED <<shardVars, loadVars>>

\* handle.join() returned Ok(titles): res.extend_from_slice(titles)
QueryJoinOk ==
  /\ qpc = "join"
  /\ qj < Len(qhandles)
  /\ Terminated(qthr[qhandles[qj + 1] + 1].st)
  /\ qacc' = qacc \o qthr[qhandles[qj + 1] + 1].res
  /\ qj' = qj + 1
  /\ UNCHANGED <<qpc, qf, qi, qhandles, qthr, qerrs, qret>>
  /\ UNCHANGED <<shardVars, loadVars>>

\* the join loop is over and query returns Ok(res)
QueryReturn ==
  /\ qpc = "join"
  /\ qj = Len(qhandles)
  /\ qret' = [f |-> qf, res |-> qacc]
  /\ QueryIdle
  /\ UNCHANGED <<shardVars, loadVars>>

\* the mutation: the lookup takes the entry out of the table
RatingRemoving ==
  /\ opc = "ready"
  /\ qpc = "idle"
  /\ \E id \in RatingIds :
       /\ qret' = [f |-> [rating |-> id], res |-> RatingsGet(ratings_db, id)]
       /\ ratings_db' = [k \in DOMAIN ratings_db \ {id} |-> ratings_db[k]]
  /\ UNCHANGED <<qpc, qf, qi, qhandles, qj, qthr, qacc, qerrs>>
  /\ UNCHANGED <<ncpus, storage, opc, spawn_i, handles, join_j, basics_dbs,
                 rpos, source, mutex, wpc, lines, lidx, shard, inserted,
                 errors, failure>>
  /\ UNCHANGED shardVars

\* Service::rating on a Service that new has returned
Rating ==
  /\ opc = "ready"
  /\ qpc = "idle"
  /\ \E id \in RatingIds :
       qret' = [f |-> [rating |-> id], res |-> RatingsGet(ratings_db, id)]
  /\ UNCHANGED <<qpc, qf, qi, qhandles, qj, qthr, qacc, qerrs>>
  /\ UNCHANGED <<shardVars, loadVars>>

Next ==
  \/ LoadDbFiles
  \/ LoadDbFilesErr
  \/ SpawnOk
  \/ SpawnErr
  \/ SpawnDone
  \/ \E i \in Workers : Lock(i)
  \/ \E i \in Workers : TakeBatch(i)
  \/ \E i \in Workers : InsertLine(i)
  \/ JoinOk
  \/ JoinErr
  \/ ParseBasicsReturn
  \/ AddRating
  \/ NewReturn
  \/ QueryStart
  \/ QuerySpawnOk
  \/ QuerySpawnErr
  \/ QuerySpawnDone
  \/ \E k \in 1..Len(qthr) : QueryRun(k)
  \/ QueryJoinOk
  \/ QueryReturn
  \/ Rating

Spec == Init /\ [][Next]_vars

\* the steps of the closure of worker i
WorkerStep(i) ==
  /\ i \in DOMAIN wpc
  /\ (Lock(i) \/ TakeBatch(i) \/ InsertLine(i))

\* the steps of the thread that runs Service::new up to the end of
\* parse_basics
Orchestrate ==
  \/ LoadDbFiles
  \/ LoadDbFilesErr
  \/ SpawnOk
  \/ SpawnErr
  \/ SpawnDone
  \/ JoinOk
  \/ JoinErr
  \/ ParseBasicsReturn

\* parse_basics alone
LoadNext == Orchestrate \/ \E i \in Workers : WorkerStep(i)

\* worker i can take a step: it is past spawn and not stopped, and when it
\* waits for the lock the lock is free
CanWork(i) ==
  /\ i \in DOMAIN wpc
  /\ \/ wpc[i] \in {"take", "insert"}
     \/ wpc[i] = "lock" /\ mutex = <<>>

\* the load with every thread that can take a step eventually scheduled:
\* weak fairness of the orchestrator and of each worker, the worker's
\* written with CanWork(i) for ENABLED <<WorkerStep(i)>>_vars
FairLoad ==
  /\ Init
  /\ [][LoadNext]_vars
  /\ WF_vars(Orchestrate)
  /\ \A i \in 0..(MaxCpus \div 2) :
       ([]<>(~CanWork(i))) \/ ([]<><<WorkerStep(i)>>_vars)

--------------------------------------------------------------------------
(* Properties of the load and of the queries *)

\* parse_basics has returned
BasicsParsed == opc \in {"ratings", "ready"}

\* the calls of add_basics_from_line made with line number no
InsertsOf(no) ==
  UNION {{<<i, k>> : k \in {j \in 1..Len(inserted[i]) : inserted[i][j] = no}} :
           i \in Workers}

\* C1: for a worker count of at least 1, when the load has completed without
\* an error (no spawn failed, no insert failed) every non-empty line after
\* the header has been passed to add_basics_from_line exactly once, by
\* exactly one worker
C1_EveryLineInsertedOnce ==
  (BasicsParsed /\ N >= 1 /\ errors = {}) =>
    \A no \in (SKIP + 1)..Len(BasicsLines) :
      BasicsLines[no] # <<>> => Cardinality(InsertsOf(no)) = 1

\* two workers have both inserted lines and the load has completed
C1_Witness ==
  /\ opc = "ready"
  /\ N = 2
  /\ errors = {}
  /\ \A i \in Workers : inserted[i] # <<>>

\* C2: when add_basics_from_line returns an error in a worker, no Service
\* is returned
C2_InsertErrorFailsConstruction ==
  opc = "ready" => \A i \in Workers : wpc[i] # "panicked"

\* C9: a Service that construction returns holds exactly N shards
C9_ExactlyNShards ==
  opc = "ready" => Len(basics_dbs) = N

\* the results f can have on one shard
OwnResults(b, f) == UNION {QueryClosure(b, f, g) : g \in Garbage}

\* the concatenations, in shard order, of one result per shard
RECURSIVE ConcatResults(_, _)
ConcatResults(dbs, f) ==
  IF Len(dbs) = 0 THEN {<<>>}
  ELSE {r \o rest : r \in OwnResults(dbs[1], f),
                   rest \in ConcatResults(Tail(dbs), f)}

\* C4: what Service::query returns is the concatenation, in shard order, of
\* the results of the shards
C4_QueryIsConcatenation ==
  (qret # <<>> /\ "movies" \in DOMAIN qret.f) =>
    qret.res \in ConcatResults(basics_dbs, qret.f)

\* the load is over: no worker is running or holds the cursor, every handle
\* is joined and every rating line is in the table
LoadComplete ==
  /\ \A i \in Workers : wpc[i] \in {"unspawned", "finished", "panicked"}
  /\ mutex = <<>>
  /\ join_j = Len(handles)
  /\ rpos = Len(RatingsLines)

\* every shard of the Service is the finished shard of a worker
ShardsSealed ==
  \A k \in 1..Len(basics_dbs) :
    \E i \in Workers : wpc[i] = "finished" /\ basics_dbs[k] = shard[i]

\* C10: a Service exists, a query runs or has been answered only when the
\* load is over, and the shards it reads are those of finished workers
C10_NoQueryBeforeLoadCompletes ==
  (opc = "ready" \/ qpc # "idle" \/ qret # <<>>) =>
    (LoadComplete /\ ShardsSealed)

\* a query over the shards of two workers has returned records
C10_Witness ==
  /\ qret # <<>>
  /\ qret.res # <<>>
  /\ Len(basics_dbs) = 2
  /\ \A i \in Workers : inserted[i] # <<>>

RatingLineNos ==
  {k \in (SKIP + 1)..Len(RatingsLines) : RatingsLines[k] # <<>>}

RatingLineId(k) == TitleIdTryFrom(Split(RatingsLines[k], TAB)[1])

HasDuplicateRatingId ==
  \E j, k \in RatingLineNos : j # k /\ RatingLineId(j) = RatingLineId(k)

\* the pairs add_rating_from_line may decode from line k
PairsOfLine(k) ==
  LET f == Split(RatingsLines[k], TAB)
  IN {<<ToIntUnchecked(TimesTen(f[2])[1], ub), AtoiU64(f[3])[1]>> :
        ub \in UbBytes}

C13_StoredRatingsInRange ==
  \A id \in DOMAIN ratings_db :
    /\ ratings_db[id][1] \in 0..100
    /\ \E k \in RatingLineNos :
         /\ RatingLineId(k) = <<id>>
         /\ <<ratings_db[id][1]>> = TimesTen(Split(RatingsLines[k], TAB)[2])

\* a line whose identifier and classification decode and whose
\* classification is neither movie nor series
IsDiscardedLine(line) ==
  LET f == Split(line, TAB)
  IN /\ TitleIdTryFrom(f[1]) # <<>>
     /\ Len(f) >= 2
     /\ TitleTypeFromStr(f[2]) # <<>>
     /\ ~IsMovie(TitleTypeFromStr(f[2])[1])
     /\ ~IsSeries(TitleTypeFromStr(f[2])[1])

\* C14: an insert of a line whose classification is neither movie nor
\* series returns Ok and leaves the shard as it was: both record sequences,
\* both name indices, n_movies and n_series.
C14_DiscardedLineLeavesShardUnchanged ==
  [][(calls' # calls /\ IsDiscardedLine(calls'[Len(calls')])) =>
       /\ rets'[Len(rets')] = "Ok"
       /\ db'.movies = db.movies
       /\ db'.series = db.series
       /\ db'.movies_titles = db.movies_titles
       /\ db'.series_titles = db.series_titles
       /\ NMovies(db') = NMovies(db)
       /\ NSeries(db') = NSeries(db)]_vars

\* such a line was inserted last into a shard that holds a movie and a series
C14_Witness ==
  /\ Len(calls) = 3
  /\ IsDiscardedLine(calls[3])
  /\ rets[3] = "Ok"
  /\ NMovies(db) = 1
  /\ NSeries(db) = 1

\* the registrations under a name: one per year bucket and position in it
Registrations(map, name) ==
  IF name \in DOMAIN map
  THEN UNION {{<<y, i>> : i \in 1..Len(map[name][y])} : y \in DOMAIN map[name]}
  ELSE {}

Count(res, r) == Cardinality({p \in 1..Len(res) : res[p] = r})

\* res holds, once for each registration under one of the names, the record
\* the registration's cookie stands for, and nothing else
ExactlyRegistered(records, map, names, res) ==
  LET regs == UNION {{<<t>> \o reg : reg \in Registrations(map, t)} : t \in names}
      RecordOf(reg) == records[map[reg[1]][reg[2]][reg[3]] + 1]
  IN /\ Len(res) = Cardinality(regs)
     /\ \A r \in Range(records) \cup Range(res) :
          Count(res, r) = Cardinality({reg \in regs : RecordOf(reg) = r})

\* C15: the lookup by name of a classification returns the records of that
\* classification registered under the name in any year bucket, the bucket
\* without a year included: one entry per registration, and no record that
\* is registered only under other names or stored in the other
\* classification.
C15_LookupByNameIsExact ==
  \A name \in QueryNames, g \in Garbage :
    /\ \A res \in MoviesByTitle(db, name, g) :
         ExactlyRegistered(db.movies, db.movies_titles, {name}, res)
    /\ \A res \in SeriesByTitle(db, name, g) :
         ExactlyRegistered(db.series, db.series_titles, {name}, res)

\* a lookup by name returned the movies of a name that has a bucket without
\* a year and a bucket with one
C15_Witness ==
  \E name \in QueryNames, g \in Garbage :
    /\ name \in DOMAIN db.movies_titles
    /\ <<>> \in DOMAIN db.movies_titles[name]
    /\ Cardinality(DOMAIN db.movies_titles[name]) >= 2
    /\ found \in MoviesByTitle(db, name, g)
    /\ Len(found) >= 2

\* C16: the load terminates under fair scheduling. Every worker ends by
\* claiming an empty batch, and it stops only when the shared cursor is
\* exhausted, never while unclaimed lines remain; the orchestrator returns
\* after the workers have been joined. The part about how a worker stops:
C16_WorkerStopsOnlyWhenExhausted ==
  \A i \in DOMAIN wpc :
    Terminated(wpc[i]) =>
      /\ wpc[i] = "finished"
      /\ source = Len(BasicsLines)

\* the part about termination, which holds of FairLoad: parse_basics returns
C16_LoadTerminates == <>(opc \in {"ratings", "ready", "failed"})

\* the workers that hold the lock of the shared source
Holders == {i \in DOMAIN wpc : wpc[i] = "take"}

\* C17: during the load at most one worker holds the shared line cursor; a
\* worker holds it only while it claims a batch, of at most ChunkSize lines
\* (200,000 in the code), and has released it before it parses or inserts
\* a line of the batch; a shard is changed only by a step of its own
\* worker, one shard at a time.
C17_OneHolderAndPrivateShards ==
  /\ [](/\ Cardinality(Holders) <= 1
        /\ \A i \in DOMAIN wpc :
             /\ (mutex = <<i>>) <=> (i \in Holders)
             /\ Len(lines[i]) <= ChunkSize
             /\ (wpc[i] = "insert") =>
                  (mutex # <<i>> /\ lidx[i] \in 1..Len(lines[i])))
  /\ [][\A i \in DOMAIN shard :
          (i \in DOMAIN shard' /\ shard'[i] # shard[i]) =>
            /\ wpc[i] = "insert"
            /\ \A j \in DOMAIN shard \ {i} : shard'[j] = shard[j]]_vars

\* one worker holds the lock while another, which has filled its shard from
\* a full batch it claimed before, is still inserting
C17_Witness ==
  \E i, j \in DOMAIN wpc :
    /\ i # j
    /\ wpc[i] = "take"
    /\ mutex = <<i>>
    /\ wpc[j] = "insert"
    /\ Len(lines[j]) = ChunkSize
    /\ NMovies(shard[j]) >= 1

AllDigits(tok) == Len(tok) > 0 /\ \A i \in 1..Len(tok) : IsDigit(tok[i])

\* an optional number of the dump: the sentinel or a decimal within 16 bits
WellFormedOptU16(tok) ==
  tok = NOT_AVAIL \/ (AllDigits(tok) /\ DecimalValue(tok) <= U16_MAX)

\* a title line as the dump format has it: nine fields, each one valid
WellFormedLine(line) ==
  LET f == Split(line, TAB)
  IN /\ Len(f) >= 9
     /\ TitleIdTryFrom(f[1]) # <<>>
     /\ TitleTypeFromStr(f[2]) # <<>>
     /\ f[5] \in {ZERO, ONE}
     /\ \A k \in 6..8 : WellFormedOptU16(f[k])
     /\ \/ f[9] = NOT_AVAIL
        \/ \A k \in 1..Len(Split(f[9], COMMA)) :
             GenreFromStr(Split(f[9], COMMA)[k]) # <<>>

\* C18: every non-empty title line that is malformed in some field (a
\* missing field, an invalid adult flag, year, end year, runtime or genre)
\* is rejected, whatever its classification, the classifications that are
\* neither movie nor series included: no such line is accepted and passed
\* over.
C18_MalformedLineIsRejected ==
  \A k \in 1..Len(calls) :
    (calls[k] # <<>> /\ ~WellFormedLine(calls[k])) => rets[k] # "Ok"

IsPrefix(s, t) == Len(s) <= Len(t) /\ \A i \in 1..Len(s) : s[i] = t[i]

\* the k-th record is registered with cookie k-1 under its lowercased
\* primary name and its start year, and every cookie registered under a
\* name and a year stands for a record of that year that bears the name
CookiesNumberRecords(records, map) ==
  /\ \A k \in 1..Len(records) :
       LET name == ToLowercase(records[k].primary_title)
           year == records[k].start_year
       IN /\ name \in DOMAIN map
          /\ year \in DOMAIN map[name]
          /\ (k - 1) \in Range(map[name][year])
  /\ \A name \in DOMAIN map : \A year \in DOMAIN map[name] :
       \A c \in Range(map[name][year]) :
         /\ c \in 0..(Len(records) - 1)
         /\ records[c + 1].start_year = year
         /\ name \in {ToLowercase(records[c + 1].primary_title),
                       ToLowercase(records[c + 1].original_title)}

\* records and registered cookies stay where they are; only new ones are
\* appended, one record at most
OnlyAppends(records, map, records2, map2) ==
  /\ IsPrefix(records, records2)
  /\ Len(records2) <= Len(records) + 1
  /\ \A name \in DOMAIN map :
       /\ name \in DOMAIN map2
       /\ \A year \in DOMAIN map[name] :
            /\ year \in DOMAIN map2[name]
            /\ IsPrefix(map[name][year], map2[name][year])

\* C19: in one shard and one classification the k-th stored record has
\* cookie k-1, cookies being issued 0, 1, 2, ... in insertion order, and no
\* later insert changes, moves or removes an earlier record or a cookie
\* already in the name index: each sequence only grows by appending.
C19_CookiesInInsertionOrderAppendOnly ==
  /\ [](/\ CookiesNumberRecords(db.movies, db.movies_titles)
        /\ CookiesNumberRecords(db.series, db.series_titles))
  /\ [][/\ OnlyAppends(db.movies, db.movies_titles, db'.movies, db'.movies_titles)
        /\ OnlyAppends(db.series, db.series_titles, db'.series, db'.series_titles)]_vars

\* three movies were stored one after the other, two of them under one name
\* and year
C19_Witness ==
  /\ NMovies(db) = 3
  /\ \E name \in DOMAIN db.movies_titles :
       \E year \in DOMAIN db.movies_titles[name] :
         Cardinality(Range(db.movies_titles[name][year])) >= 2

\* the registered names whose words include every keyword
NamesMatched(map, keywords) ==
  {name \in DOMAIN map : \A w \in keywords : w \in Tokenize(name)}

\* C20: the lookup by keywords of a classification yields the registrations
\* under the names of that classification's index that the keyword set
\* matches: for every registered name that matches, every cookie in every
\* year bucket is yielded once, and nothing that is registered only under
\* names that do not match.
C20_LookupByKeywordsIsExact ==
  \A keywords \in QueryKeywords, g \in Garbage :
    /\ \A res \in MoviesByKeyword(db, keywords, g) :
         ExactlyRegistered(db.movies, db.movies_titles,
                           NamesMatched(db.movies_titles, keywords), res)
    /\ \A res \in SeriesByKeyword(db, keywords, g) :
         ExactlyRegistered(db.series, db.series_titles,
                           NamesMatched(db.series_titles, keywords), res)

\* a lookup by one keyword returned the movies of two names that have the
\* word, one of them with two year buckets, in a shard that also has a name
\* without it
C20_Witness ==
  \E g \in Garbage :
    /\ found \in MoviesByKeyword(db, KW_Other, g)
    /\ Cardinality(NamesMatched(db.movies_titles, KW_Other)) = 2
    /\ \E name \in NamesMatched(db.movies_titles, KW_Other) :
         Cardinality(DOMAIN db.movies_titles[name]) = 2
    /\ DOMAIN db.movies_titles # NamesMatched(db.movies_titles, KW_Other)
    /\ Len(found) >= 3

\* C21: the worker count N with which Service::new partitions the title
\* buffer is at least 1 for every value of the machine's parallelism, so at
\* least one worker drains the source and a Service has at least one shard.
C21_AtLeastOneWorker ==
  /\ (opc \in {"spawn", "join", "ratings", "ready"}) => N >= 1
  /\ (opc = "ready") => Len(basics_dbs) >= 1

\* one shard filled with the non-empty lines ls[k..] in the order of the
\* buffer
RECURSIVE InsertAllFrom(_, _, _)
InsertAllFrom(b, ls, k) ==
  IF k > Len(ls) THEN b
  ELSE InsertAllFrom(IF ls[k] = <<>> THEN b ELSE AddBasicsFromLine(b, ls[k]),
                     ls, k + 1)

\* the title buffer in a single shard
WholeBuffer == InsertAllFrom(BasicsDefault, BasicsLines, SKIP + 1)

\* the same records, each as often, in any order
SameBag(a, b) ==
  /\ Len(a) = Len(b)
  /\ \A r \in Range(a) \cup Range(b) : Count(a, r) = Count(b, r)

\* no spawn failed and no worker panicked
LoadedWithoutError ==
  /\ errors = {}
  /\ \A i \in Workers : wpc[i] = "finished"

\* C22: for a title buffer that loads without error, the records a query by
\* name or by name and year returns through the Service are, as a multiset,
\* the same in every run, however the lines were partitioned among the
\* shards and whatever N >= 1 is: they are the records the lookup finds
\* when the whole buffer is in one shard.
C22_QueryBagIndependentOfPartition ==
  (opc = "ready" /\ qret # <<>> /\ "name" \in DOMAIN qret.f
     /\ N >= 1 /\ LoadedWithoutError) =>
    \A r \in OwnResults(WholeBuffer, qret.f) : SameBag(qret.res, r)

\* the same for the queries during which every spawn succeeded, at the end
\* of the join loop, which holds
C22_BagWhenEveryShardIsAsked ==
  (opc = "ready" /\ qpc = "join" /\ qj = Len(qhandles) /\ qerrs = {}
     /\ "name" \in DOMAIN qf /\ N >= 1 /\ LoadedWithoutError) =>
    \A r \in OwnResults(WholeBuffer, qf) : SameBag(qacc, r)

\* the calls that returned Ok and stored a movie, and those that stored a
\* series
AcceptedMovies ==
  {k \in 1..Len(calls) :
     rets[k] = "Ok" /\ Stored(calls[k]) # <<>>
       /\ IsMovie(Stored(calls[k])[1].title_type)}

AcceptedSeries ==
  {k \in 1..Len(calls) :
     rets[k] = "Ok" /\ Stored(calls[k]) # <<>>
       /\ IsSeries(Stored(calls[k])[1].title_type)}

\* everything the lookups of the movies can return, and of the series
MovieLookupResults ==
  UNION {{MoviesByTitleYear(db, name, year, g) : year \in QueryYears}
           \cup MoviesByTitle(db, name, g) : name \in QueryNames, g \in Garbage}
  \cup UNION {MoviesByKeyword(db, kw, g) : kw \in QueryKeywords, g \in Garbage}

SeriesLookupResults ==
  UNION {{SeriesByTitleYear(db, name, year, g) : year \in QueryYears}
           \cup SeriesByTitle(db, name, g) : name \in QueryNames, g \in Garbage}
  \cup UNION {SeriesByKeyword(db, kw, g) : kw \in QueryKeywords, g \in Garbage}

\* C23: in every reachable shard each stored record is in exactly one of
\* the two sequences, the one of its classification; the cookies of the
\* movie name index stand for movies and those of the series name index for
\* series; a movie lookup never returns a series record and a series
\* lookup never a movie record.
C23_ClassificationsKeptApart ==
  /\ \A r \in Range(db.movies) : IsMovie(r.title_type)
  /\ \A r \in Range(db.series) : IsSeries(r.title_type)
  /\ Range(db.movies) \cap Range(db.series) = {}
  /\ Len(db.movies) = Cardinality(AcceptedMovies)
  /\ Len(db.series) = Cardinality(AcceptedSeries)
  /\ CookiesOf(db.movies_titles) \subseteq 0..(Len(db.movies) - 1)
  /\ CookiesOf(db.series_titles) \subseteq 0..(Len(db.series) - 1)
  /\ \A res \in MovieLookupResults : \A r \in Range(res) : IsMovie(r.title_type)
  /\ \A res \in SeriesLookupResults : \A r \in Range(res) : IsSeries(r.title_type)

\* a shard holds a movie and a series under one name, and the lookup of the
\* series by that name has returned a record
C23_Witness ==
  \E name \in QueryNames, g \in Garbage :
    /\ name \in DOMAIN db.movies_titles
    /\ name \in DOMAIN db.series_titles
    /\ found \in SeriesByTitle(db, name, g)
    /\ found # <<>>

\* the errors add_basics_from_line returns
ParseErrors ==
  {"TitleId", "Eof", "TitleType", "Adult", "StartYear", "EndYear",
   "RuntimeMinutes", "Genre"}

\* C24: an insert that returns a parse error (missing field, invalid
\* identifier, classification, adult flag, year, end year, runtime or genre)
\* leaves the shard as it was: neither record sequence and neither name
\* index has changed; and an insert returns Ok or one of these errors.
C24_FailedInsertLeavesShardUnchanged ==
  [][calls' # calls =>
       /\ rets'[Len(rets')] \in ParseErrors \cup {"Ok"}
       /\ rets'[Len(rets')] # "Ok" =>
            /\ db'.movies = db.movies
            /\ db'.series = db.series
            /\ db'.movies_titles = db.movies_titles
            /\ db'.series_titles = db.series_titles]_vars

\* an insert into a shard that holds a movie and a series has returned a
\* parse error
C24_Witness ==
  /\ Len(calls) = 3
  /\ NMovies(db) = 1
  /\ NSeries(db) = 1
  /\ rets[3] \in ParseErrors

\* each of the eight errors is returned by some line of the inputs
C24_EveryErrorArises ==
  ParseErrors = {AddBasicsResult(BasicsDefault, line) : line \in MalformedLines}

====
